---- MODULE Spec2Model ----
(***************************************************************************)
(* A model of rednext's record store: the embedded (SQLite) collection     *)
(* handle SqliteFile of src/src/sqlite.rs, with the data model of          *)
(* src/src/db.rs.  The items table is modelled at the level of SQL values  *)
(* (NULL, INTEGER, TEXT), so that every write encodes a DbValue into a SQL *)
(* value and every read decodes it again.                                  *)
(***************************************************************************)
EXTENDS Integers, Sequences, FiniteSets, TLC

VARIABLES schema, items, seq, assigned, last, disk, opened, call, remote, exchange, prompt, answer

vars == <<schema, items, seq, assigned, last, disk, opened, call, remote, exchange, prompt, answer>>

\* What the operations of a collection handle leave alone: the catalog and
\* the remote backend.
elsewhere == <<disk, opened, call, remote, exchange, prompt, answer>>

\* The date prompt while no date is being entered.
PromptIdle == prompt = <<>> /\ answer = <<>>

\* The number of insert calls explored on one collection.
MaxInserts == 2

----------------------------------------------------------------------------
(* Data model (db.rs).  Texts are sequences of one-character strings.  A   *)
(* NaiveDateTime is its date, its time of day and its sub-second fraction, *)
(* each held as the token chrono prints for it ("" = no fraction).         *)

NaiveDateTime(date, time, frac) == [date |-> date, time |-> time, frac |-> frac]

NoDateTime == NaiveDateTime("", "", "")

DbFieldType == {"Text", "Number", "Boolean", "DateTime"}

DbFieldDesc(name, field_type) == [name |-> name, field_type |-> field_type]

DbValueText(s) == [tag |-> "Text", s |-> s, n |-> 0, b |-> FALSE, dt |-> NoDateTime]

DbValueNumber(n) == [tag |-> "Number", s |-> <<>>, n |-> n, b |-> FALSE, dt |-> NoDateTime]

DbValueBoolean(b) == [tag |-> "Boolean", s |-> <<>>, n |-> 0, b |-> b, dt |-> NoDateTime]

DbValueDateTime(dt) == [tag |-> "DateTime", s |-> <<>>, n |-> 0, b |-> FALSE, dt |-> dt]

DbField(name, value) == [name |-> name, value |-> value]

\* completed_at is an Option: <<>> is None, <<t>> is Some(t).
DbItem(id, fields, completed_at) == [id |-> id, fields |-> fields, completed_at |-> completed_at]

----------------------------------------------------------------------------
(* SQL values as SQLite stores them.                                       *)

SqlNull == [k |-> "null", i |-> 0, s |-> <<>>]

SqlInt(i) == [k |-> "integer", i |-> i, s |-> <<>>]

SqlText(s) == [k |-> "text", i |-> 0, s |-> s]

\* The result of a fallible conversion or call: Ok(val) or Err.
Ok(val) == [ok |-> TRUE, val |-> val]

Err(val) == [ok |-> FALSE, val |-> val]

Digits == <<"0", "1", "2", "3", "4", "5", "6", "7", "8", "9">>

DigitSet == {Digits[i] : i \in 1..10}

DigitValue(c) == (CHOOSE i \in 1..10 : Digits[i] = c) - 1

RECURSIVE NatToText(_)
NatToText(n) ==
    IF n < 10 THEN <<Digits[n + 1]>>
    ELSE Append(NatToText(n \div 10), Digits[(n % 10) + 1])

IntToText(n) == IF n < 0 THEN <<"-">> \o NatToText(-n) ELSE NatToText(n)

IsNatText(s) == Len(s) > 0 /\ \A i \in 1..Len(s) : s[i] \in DigitSet

IsIntText(s) == IsNatText(s) \/ (Len(s) > 1 /\ s[1] = "-" /\ IsNatText(Tail(s)))

RECURSIVE NatOfText(_)
NatOfText(s) ==
    IF s = <<>> THEN 0
    ELSE 10 * NatOfText(SubSeq(s, 1, Len(s) - 1)) + DigitValue(s[Len(s)])

IntOfText(s) == IF s[1] = "-" THEN -NatOfText(Tail(s)) ELSE NatOfText(s)

----------------------------------------------------------------------------
(* Bounded input domains.                                                  *)

Texts == {<<"a", "b">>, <<"B">>}

Numbers == {42}

DateTokens == {"2024-07-01", "2026-01-11"}

TimeTokens == {"00:00:00", "01:20:00", "15:30:00"}

FracTokens == {".5"}

\* DateTime field values have second precision (main.rs parses them with %S).
DateTimes == {NaiveDateTime("2024-07-01", "01:20:00", "")}

\* Completion times come from Local::now() and may carry a fraction.
Stamps ==
    { NaiveDateTime("2026-01-11", "15:30:00", ""),
      NaiveDateTime("2024-07-01", "01:20:00", ".5"),
      NaiveDateTime("2024-07-01", "01:20:00", "") }

SearchTexts == {<<>>, <<"b">>, <<"_">>, <<"a", "%", "b">>, <<"x">>}

Schemas ==
    { <<DbFieldDesc("txt", "Text"), DbFieldDesc("n", "Number")>>,
      <<DbFieldDesc("due", "DateTime"), DbFieldDesc("bool", "Boolean")>> }

\* The schema of the handle the tests build (tests::create_file).
FixtureSchema ==
    <<DbFieldDesc("txt", "Text"), DbFieldDesc("due", "DateTime"),
      DbFieldDesc("bool", "Boolean"), DbFieldDesc("n", "Number")>>

\* Ids passed to get/delete/done/undone; MaxInserts + 1 is never assigned.
Ids == 1..(MaxInserts + 1)

ValuesOf(field_type) ==
    CASE field_type = "Text" -> {DbValueText(s) : s \in Texts}
      [] field_type = "Number" -> {DbValueNumber(n) : n \in Numbers}
      [] field_type = "Boolean" -> {DbValueBoolean(b) : b \in BOOLEAN}
      [] field_type = "DateTime" -> {DbValueDateTime(dt) : dt \in DateTimes}

Range(f) == {f[i] : i \in DOMAIN f}

\* All orderings of the elements of a finite set.
RECURSIVE Orderings(_)
Orderings(S) ==
    IF S = {} THEN {<<>>}
    ELSE UNION {{<<x>> \o rest : rest \in Orderings(S \ {x})} : x \in S}

\* Field lists a caller passes to insert: one Field per schema column, of the
\* column's type, in any order (main.rs add_item, import_csv).
FullFieldLists(sch) ==
    UNION { Orderings({DbField(sch[i].name, vals[i]) : i \in DOMAIN sch}) :
            vals \in {v \in [DOMAIN sch -> UNION {ValuesOf(t) : t \in DbFieldType}] :
                        \A i \in DOMAIN sch : v[i] \in ValuesOf(sch[i].field_type)} }

\* A field list naming a column the table does not have.
UnknownColumnLists == {<<DbField("nope", DbValueText(<<"a", "b">>))>>}

\* The Fields of tests::test_insert, in every order.
FixtureFieldLists ==
    Orderings({ DbField("txt", DbValueText(<<"a", "b">>)),
                DbField("due", DbValueDateTime(NaiveDateTime("2024-07-01", "01:20:00", ""))),
                DbField("bool", DbValueBoolean(TRUE)),
                DbField("n", DbValueNumber(42)) })

InsertInputs(sch) ==
    (IF sch = FixtureSchema THEN FixtureFieldLists ELSE FullFieldLists(sch)) \cup UnknownColumnLists

----------------------------------------------------------------------------
(* Encoding and decoding of values (rusqlite ToSql / FromSql).             *)

\* insert: dt.format("%Y-%m-%dT%H:%M:%S") drops the fraction.
format_field_datetime(dt) == <<dt.date, "T", dt.time>>

\* done: params![time, id] binds a NaiveDateTime as "%F %T%.f".
format_done_time_seconds(dt) == <<dt.date, " ", dt.time>>

format_done_time(dt) == <<dt.date, " ", dt.time>> \o (IF dt.frac = "" THEN <<>> ELSE <<dt.frac>>)

\* FromSql for NaiveDateTime: "%FT%T%.f" when a 'T' follows the date, else
\* "%F %T%.f"; the fraction is optional.
parse_datetime(s) ==
    LET sep == IF Len(s) >= 2 /\ s[2] = "T" THEN "T" ELSE " "
        good == /\ Len(s) \in {3, 4}
                /\ s[1] \in DateTokens
                /\ s[2] = sep
                /\ s[3] \in TimeTokens
                /\ (Len(s) = 4 => s[4] \in FracTokens)
    IN IF good
       THEN Ok(NaiveDateTime(s[1], s[3], IF Len(s) = 4 THEN s[4] ELSE ""))
       ELSE Err(NoDateTime)

to_sql_value(value) ==
    CASE value.tag = "Text" -> SqlText(value.s)
      [] value.tag = "Number" -> SqlInt(value.n)
      [] value.tag = "Boolean" -> SqlInt(IF value.b THEN 1 ELSE 0)
      [] value.tag = "DateTime" -> SqlText(format_field_datetime(value.dt))

\* The bounds of i32 (db.rs: Number(i32)).
I32Min == (-2147483647) - 1

I32Max == 2147483647

from_sql_value(field_type, v) ==
    CASE field_type = "Text" ->
            IF v.k = "text" THEN Ok(DbValueText(v.s)) ELSE Err(DbValueText(<<>>))
      [] field_type = "Number" ->
            IF v.k = "integer" /\ v.i >= I32Min /\ v.i <= I32Max
            THEN Ok(DbValueNumber(v.i)) ELSE Err(DbValueNumber(0))
      [] field_type = "Boolean" ->
            IF v.k = "integer" THEN Ok(DbValueBoolean(v.i # 0)) ELSE Err(DbValueBoolean(FALSE))
      [] field_type = "DateTime" ->
            IF v.k = "text" /\ parse_datetime(v.s).ok
            THEN Ok(DbValueDateTime(parse_datetime(v.s).val))
            ELSE Err(DbValueDateTime(NoDateTime))

\* row.get("done_at") as Option<NaiveDateTime>.
from_sql_done_at(v) ==
    IF v.k = "null" THEN Ok(<<>>)
    ELSE IF v.k = "text" /\ parse_datetime(v.s).ok THEN Ok(<<parse_datetime(v.s).val>>)
    ELSE Err(<<>>)

----------------------------------------------------------------------------
(* The items table.                                                        *)

sql_type(field_type) ==
    CASE field_type = "Text" -> "TEXT"
      [] field_type = "Number" -> "NUMBER"
      [] field_type = "Boolean" -> "BOOLEAN"
      [] field_type = "DateTime" -> "TIMESTAMP"

\* SQLite's column affinity of a declared type.
affinity(decl) ==
    CASE decl = "INTEGER" -> "INTEGER"
      [] decl = "TEXT" -> "TEXT"
      [] OTHER -> "NUMERIC"

apply_affinity(aff, v) ==
    CASE aff = "TEXT" /\ v.k = "integer" -> SqlText(IntToText(v.i))
      [] aff \in {"NUMERIC", "INTEGER"} /\ v.k = "text" /\ IsIntText(v.s) -> SqlInt(IntOfText(v.s))
      [] OTHER -> v

\* CREATE TABLE items (id INTEGER PRIMARY KEY AUTOINCREMENT, <fields>, done_at TIMESTAMP)
create_items_table(sch) ==
    <<[name |-> "id", decl |-> "INTEGER"]>>
    \o [i \in DOMAIN sch |-> [name |-> sch[i].name, decl |-> sql_type(sch[i].field_type)]]
    \o <<[name |-> "done_at", decl |-> "TIMESTAMP"]>>

\* The items table of tests::create_file: its columns are in another order
\* than the schema's fields, and it has one the schema does not name.
create_file_table ==
    << [name |-> "id", decl |-> "INTEGER"], [name |-> "txt", decl |-> "TEXT"],
       [name |-> "due", decl |-> "TIMESTAMP"], [name |-> "n", decl |-> "NUMBER"],
       [name |-> "bool", decl |-> "BOOLEAN"], [name |-> "done_at", decl |-> "TIMESTAMP"],
       [name |-> "comment", decl |-> "TEXT"] >>

\* The items table behind a handle of this schema.
items_columns(sch) == IF sch = FixtureSchema THEN create_file_table ELSE create_items_table(sch)

FieldNames(sch) == {sch[i].name : i \in DOMAIN sch}

DeclOf(sch, name) == (CHOOSE c \in Range(items_columns(sch)) : c.name = name).decl

Max(a, b) == IF a >= b THEN a ELSE b

RowIds(rows) == {r.id : r \in rows}

MaxRowId(rows) == IF rows = {} THEN 0 ELSE CHOOSE m \in RowIds(rows) : \A x \in RowIds(rows) : x <= m

\* A row of the items table: its rowid, its field columns and done_at.
Row(id, cols, done_at) == [id |-> id, cols |-> cols, done_at |-> done_at]

\* The value a row holds in a named column of the table.
column_value(row, name) ==
    CASE name = "id" -> SqlInt(row.id)
      [] name = "done_at" -> row.done_at
      [] OTHER -> row.cols[name]

\* AUTOINCREMENT: one more than the largest rowid the table has ever held
\* (sqlite_sequence), never less than the largest rowid it holds now.
next_rowid_reuse(rows, s) == MaxRowId(rows) + 1

next_rowid(rows, s) == Max(MaxRowId(rows), s) + 1

\* SQLite's order of values: NULL, then numbers, then text by its bytes.
\* A token's rank is the code of its first byte times 100, plus its place
\* among the tokens that start with that byte.
TokenRank(c) ==
    CASE c = " " -> 3200 [] c = "%" -> 3700 [] c = "-" -> 4500 [] c = ".5" -> 4601
      [] c = "00:00:00" -> 4801 [] c = "01:20:00" -> 4802 [] c = "15:30:00" -> 4901
      [] c = "2024-07-01" -> 5001 [] c = "2026-01-11" -> 5002
      [] c = "A" -> 6500 [] c = "B" -> 6600 [] c = "T" -> 8400 [] c = "_" -> 9500
      [] c = "a" -> 9700 [] c = "b" -> 9800 [] c = "x" -> 12000
      [] c \in DigitSet -> 4800 + 100 * DigitValue(c)

RECURSIVE text_leq(_, _)
text_leq(s, t) ==
    IF s = <<>> THEN TRUE
    ELSE IF t = <<>> THEN FALSE
    ELSE IF Head(s) = Head(t) THEN text_leq(Tail(s), Tail(t))
    ELSE TokenRank(Head(s)) < TokenRank(Head(t))

KindRank(v) == CASE v.k = "null" -> 0 [] v.k = "integer" -> 1 [] v.k = "text" -> 2

sql_leq(a, b) ==
    IF KindRank(a) # KindRank(b) THEN KindRank(a) < KindRank(b)
    ELSE CASE a.k = "null" -> TRUE
           [] a.k = "integer" -> a.i <= b.i
           [] a.k = "text" -> text_leq(a.s, b.s)

\* LIKE: % matches any run of characters, _ any one character, and ASCII
\* letters match without regard to case.
FoldCase(c) == CASE c = "A" -> "a" [] c = "B" -> "b" [] c = "T" -> "t" [] OTHER -> c

RECURSIVE Like(_, _)
Like(p, t) ==
    IF p = <<>> THEN t = <<>>
    ELSE IF Head(p) = "%" THEN Like(Tail(p), t) \/ (t # <<>> /\ Like(p, Tail(t)))
    ELSE /\ t # <<>>
         /\ (Head(p) = "_" \/ FoldCase(Head(p)) = FoldCase(Head(t)))
         /\ Like(Tail(p), Tail(t))

sql_like(p, v) ==
    CASE v.k = "null" -> FALSE
      [] v.k = "integer" -> Like(p, IntToText(v.i))
      [] v.k = "text" -> Like(p, v.s)

----------------------------------------------------------------------------
(* Queries: SqliteFile::to_db_item, base_select, select_items.             *)

\* A WHERE text: <<>> is no filter at all; otherwise the clauses joined by OR.
NoFilter == [some |-> FALSE, clauses |-> <<>>]

SomeFilter(clauses) == [some |-> TRUE, clauses |-> clauses]

Clause(col, op) == [col |-> col, op |-> op]

clause_holds(c, row, param) ==
    CASE c.op = "IS NULL" -> column_value(row, c.col).k = "null"
      [] c.op = "IS NOT NULL" -> column_value(row, c.col).k # "null"
      [] c.op = "LIKE ?1" -> sql_like(param, column_value(row, c.col))
      [] c.op = "=?1" -> column_value(row, c.col) = param

filter_holds(filter, row, param) ==
    ~filter.some \/ \E i \in DOMAIN filter.clauses : clause_holds(filter.clauses[i], row, param)

\* "SELECT id, <fields>, done_at FROM items": the columns it names.
base_select(sch) == <<"id">> \o [i \in DOMAIN sch |-> sch[i].name] \o <<"done_at">>

TableColumns(sch) == {c.name : c \in Range(items_columns(sch))}

\* Whether SQLite prepares the statement: "WHERE " followed by nothing is a
\* syntax error, and every column named must be one of the table.
prepare_ok(sch, filter, ord) ==
    /\ Range(base_select(sch)) \subseteq TableColumns(sch)
    /\ filter.some => /\ filter.clauses # <<>>
                      /\ \A i \in DOMAIN filter.clauses : filter.clauses[i].col \in TableColumns(sch)
    /\ ord \in TableColumns(sch)

\* The fields a record is built from: self.schema.fields, in their order.
item_fields_in_table_order(sch) ==
    LET cols == SelectSeq(items_columns(sch), LAMBDA c : c.name \in FieldNames(sch))
    IN [i \in DOMAIN cols |-> CHOOSE f \in Range(sch) : f.name = cols[i].name]

item_fields(sch) == sch

\* row.get("id") is a u32: a negative rowid is an error (rowids beyond u32
\* are out of the range explored here).
to_db_item(sch, row) ==
    LET fs == item_fields(sch)
        got == [i \in DOMAIN fs |-> from_sql_value(fs[i].field_type, column_value(row, fs[i].name))]
        id == column_value(row, "id")
        completed_at == from_sql_done_at(column_value(row, "done_at"))
    IN IF /\ \A i \in DOMAIN fs : got[i].ok
          /\ id.k = "integer" /\ id.i >= 0
          /\ completed_at.ok
       THEN Ok(<<DbItem(id.i, [i \in DOMAIN fs |-> DbField(fs[i].name, got[i].val)], completed_at.val)>>)
       ELSE Err(<<>>)

\* The orders in which ORDER BY <ord> may return the rows: ascending in
\* <ord>, rows equal in it in any order.
ordered_rows(rows, ord) ==
    {s \in Orderings(rows) :
        \A i, j \in DOMAIN s : i < j => sql_leq(column_value(s[i], ord), column_value(s[j], ord))}

collect_items(sch, s) ==
    IF \A i \in DOMAIN s : to_db_item(sch, s[i]).ok
    THEN Ok([i \in DOMAIN s |-> to_db_item(sch, s[i]).val[1]])
    ELSE Err(<<>>)

\* The results select_items may return.
select_items(sch, rows, filter, param, ord) ==
    IF ~prepare_ok(sch, filter, ord) THEN {Err(<<>>)}
    ELSE {collect_items(sch, s) : s \in ordered_rows({r \in rows : filter_holds(filter, r, param)}, ord)}

----------------------------------------------------------------------------
(* Statements that change the table.                                       *)

FirstIndex(fields, name) == CHOOSE i \in DOMAIN fields : fields[i].name = name /\ \A j \in 1..(i - 1) : fields[j].name # name

\* INSERT INTO items ("f1", .., "fk") VALUES (?1, .., ?k): the named columns
\* take the bound values, every other column is NULL, done_at is NULL.
insert_row_positional(sch, fields, id) ==
    Row(id,
        [c \in FieldNames(sch) |->
            LET i == CHOOSE j \in DOMAIN sch : sch[j].name = c
            IN IF i \in DOMAIN fields
               THEN apply_affinity(affinity(DeclOf(sch, c)), to_sql_value(fields[i].value))
               ELSE SqlNull],
        SqlNull)

insert_row(sch, fields, id) ==
    Row(id,
        [c \in FieldNames(sch) |->
            IF \E i \in DOMAIN fields : fields[i].name = c
            THEN apply_affinity(affinity(DeclOf(sch, c)),
                                to_sql_value(fields[FirstIndex(fields, c)].value))
            ELSE SqlNull],
        SqlNull)

\* The statement is rejected when it names no column or a column the table
\* does not have.  (Field lists naming id or done_at are not modelled.)
insert_prepare_ok(sch, fields) ==
    fields # <<>> /\ \A i \in DOMAIN fields : fields[i].name \in FieldNames(sch)

\* DELETE FROM items WHERE id=?1
delete_rows_upto(rows, id) == {r \in rows : r.id > id}

delete_rows(rows, id) == {r \in rows : r.id # id}

\* UPDATE items SET done_at=?1, without the WHERE clause.
update_all_done_at(rows, id, v) ==
    {[r EXCEPT !.done_at = apply_affinity(affinity("TIMESTAMP"), v)] : r \in rows}

\* UPDATE items SET done_at=?1 WHERE id=?2 AND (done_at IS NULL) <> (?1 IS NULL):
\* an update that only ever toggles the state.
update_done_at_toggle(rows, id, v) ==
    {IF r.id = id /\ (r.done_at = SqlNull) # (v = SqlNull)
     THEN [r EXCEPT !.done_at = apply_affinity(affinity("TIMESTAMP"), v)] ELSE r : r \in rows}

\* UPDATE items SET done_at=?1 WHERE id=?2
update_done_at(rows, id, v) ==
    {IF r.id = id THEN [r EXCEPT !.done_at = apply_affinity(affinity("TIMESTAMP"), v)] ELSE r : r \in rows}

\* The number of rows a statement with WHERE id=? changes.
affected(rows, id) == Cardinality({r \in rows : r.id = id})

\* done / undone: Ok exactly when one row was updated.
count_at_most_one(count) == count <= 1

count_is_one(count) == count = 1

\* delete ignores the number of rows it removed.
delete_result(count) == TRUE

----------------------------------------------------------------------------
(* The filters of the read operations.                                     *)

list_items_filter == NoFilter

list_done_filter == SomeFilter(<<Clause("done_at", "IS NOT NULL")>>)

list_undone_unfiltered == NoFilter

list_undone_filter == SomeFilter(<<Clause("done_at", "IS NULL")>>)

get_random_unfiltered == NoFilter

get_random_filter == SomeFilter(<<Clause("done_at", "IS NULL")>>)

get_filter_any == NoFilter

get_filter == SomeFilter(<<Clause("id", "=?1")>>)

\* find: one "<name> LIKE ?1" per Text field, joined by OR.
RECURSIVE text_clauses(_)
text_clauses(sch) ==
    IF sch = <<>> THEN <<>>
    ELSE (IF Head(sch).field_type = "Text" THEN <<Clause(Head(sch).name, "LIKE ?1")>> ELSE <<>>)
         \o text_clauses(Tail(sch))

find_filter(sch) == SomeFilter(text_clauses(sch))

find_pattern(item_name) == <<"%">> \o item_name \o <<"%">>

\* query_one(..).optional(): no row is Ok(None), a row is converted.
query_one(sch, rows, filter, param) ==
    IF ~prepare_ok(sch, filter, "id") THEN {Err(<<>>)}
    ELSE LET sel == {r \in rows : filter_holds(filter, r, param)}
         IN IF sel = {} THEN {Ok(<<>>)} ELSE {to_db_item(sch, r) : r \in sel}

\* What the read operations may return in a state of the table.
list_items_results(sch, rows) == select_items(sch, rows, list_items_filter, <<>>, "id")

\* list_done orders by completion time: Some("done_at").
list_done_order_by_id == "id"

list_done_order == "done_at"

list_done_results(sch, rows) == select_items(sch, rows, list_done_filter, <<>>, list_done_order)

list_undone_results(sch, rows) == select_items(sch, rows, list_undone_filter, <<>>, "id")

find_results(sch, rows, item_name) == select_items(sch, rows, find_filter(sch), find_pattern(item_name), "id")

get_results(sch, rows, id) == query_one(sch, rows, get_filter, SqlInt(id))

get_random_results(sch, rows) == query_one(sch, rows, get_random_filter, <<>>)

----------------------------------------------------------------------------
(* The catalog SqliteDB: a directory holding one file per collection.  A   *)
(* collection name and a file name are the sequences of their dot-         *)
(* separated parts: the name "a.b" is <<"a", "b">>, its file "a.b.db" is   *)
(* <<"a", "b", "db">>.                                                     *)

Names == {<<"a">>, <<"a", "b">>}

\* The number of records stored in one collection file.
MaxStored == 1

\* Display for DbFieldType (strum): the variant's name, as its characters.
type_to_string(field_type) ==
    CASE field_type = "Text" -> <<"T", "e", "x", "t">>
      [] field_type = "Number" -> <<"N", "u", "m", "b", "e", "r">>
      [] field_type = "Boolean" -> <<"B", "o", "o", "l", "e", "a", "n">>
      [] field_type = "DateTime" -> <<"D", "a", "t", "e", "T", "i", "m", "e">>

\* EnumString for DbFieldType: the exact variant names, nothing else.
parse_any_case(s) ==
    CASE s \in {<<"T", "e", "x", "t">>, <<"t", "e", "x", "t">>} -> Ok("Text")
      [] s = <<"N", "u", "m", "b", "e", "r">> -> Ok("Number")
      [] s = <<"B", "o", "o", "l", "e", "a", "n">> -> Ok("Boolean")
      [] s \in {<<"D", "a", "t", "e", "T", "i", "m", "e">>, <<"T", "i", "m", "e", "s", "t", "a", "m", "p">>} ->
           Ok("DateTime")
      [] OTHER -> Err("")

parse(s) ==
    CASE s = <<"T", "e", "x", "t">> -> Ok("Text")
      [] s = <<"N", "u", "m", "b", "e", "r">> -> Ok("Number")
      [] s = <<"B", "o", "o", "l", "e", "a", "n">> -> Ok("Boolean")
      [] s = <<"D", "a", "t", "e", "T", "i", "m", "e">> -> Ok("DateTime")
      [] OTHER -> Err("")

\* The text names a persisted schema may hold: the four type names, and
\* names no DbFieldType has.
TypeNames ==
    { type_to_string(t) : t \in DbFieldType }
    \cup { <<"t", "e", "x", "t">>, <<"T", "i", "m", "e", "s", "t", "a", "m", "p">>, <<>> }

\* A database file: its schema table (<<>> when the table does not exist,
\* else <<its rows>>), its items table (<<>>, else <<its columns>>), the rows
\* of items and sqlite_sequence.  created holds the schema of the create call
\* that completed on this file (<<>> if none did).
Database(schema_table, items_table, rows, s, created) ==
    [schema_table |-> schema_table, items_table |-> items_table, rows |-> rows,
     seq |-> s, created |-> created]

\* What Connection::open makes of a path that holds no file.
EmptyDatabase == Database(<<>>, <<>>, {}, 0, <<>>)

SchemaRow(name, datatype, idx) == [name |-> name, datatype |-> datatype, idx |-> idx]

\* CREATE TABLE schema, then one INSERT per field in a transaction: a
\* repeated name violates the primary key and the transaction rolls back.
write_schema(db, sch) ==
    IF db.schema_table # <<>> THEN Err(db)
    ELSE IF \E i, j \in DOMAIN sch : i # j /\ sch[i].name = sch[j].name
    THEN Err([db EXCEPT !.schema_table = <<{}>>])
    ELSE Ok([db EXCEPT !.schema_table =
                <<{SchemaRow(sch[i].name, type_to_string(sch[i].field_type), i - 1) :
                      i \in DOMAIN sch}>>])

\* CREATE TABLE items is rejected when there is no field to declare or two
\* columns get the same name.
create_items_table_ok(sch) ==
    LET cols == create_items_table(sch)
    IN /\ sch # <<>>
       /\ \A i, j \in DOMAIN cols : i # j => cols[i].name # cols[j].name

RECURSIVE order_by_idx(_)
order_by_idx(rows) ==
    IF rows = {} THEN <<>>
    ELSE LET first == CHOOSE r \in rows : \A q \in rows : r.idx <= q.idx
         IN <<first>> \o order_by_idx(rows \ {first})

\* SELECT name, datatype FROM schema ORDER BY idx, each datatype parsed.
read_schema(db) ==
    IF db.schema_table = <<>> THEN Err(<<>>)
    ELSE LET rows == order_by_idx(db.schema_table[1])
         IN IF \A i \in DOMAIN rows : parse(rows[i].datatype).ok
            THEN Ok([i \in DOMAIN rows |-> DbFieldDesc(rows[i].name, parse(rows[i].datatype).val)])
            ELSE Err(<<>>)

\* path.join(format!("{}.db", name))
create_path(name) == Append(name, "db")

\* Path::extension and Path::file_stem: the part after the last dot, and
\* what precedes it.
extension(file) == IF Len(file) >= 2 THEN <<file[Len(file)]>> ELSE <<>>

file_stem(file) == IF Len(file) >= 2 THEN SubSeq(file, 1, Len(file) - 1) ELSE file

\* path.push(name); path.set_extension("db"): an extension the name already
\* has is replaced.
set_extension(name, ext) == Append(file_stem(name), ext)

\* The storage location: absent, a directory or a regular file; files maps
\* the file names of the directory to their contents.
Disk(dir, files) == [dir |-> dir, files |-> files]

NoFiles == [f \in {} |-> EmptyDatabase]

with_file(files, path, db) == [f \in DOMAIN files \cup {path} |-> IF f = path THEN db ELSE files[f]]

without_file(files, path) == [f \in DOMAIN files \ {path} |-> files[f]]

SqliteFile(path, sch) == [path |-> path, schema |-> sch]

\* The outcome of a catalog call: its result, the handle it returns and the
\* storage location it leaves.
Outcome(ok, handle, dsk) == [ok |-> ok, handle |-> handle, disk |-> dsk]

list_files(dsk) ==
    CASE dsk.dir = "directory" ->
           Ok({file_stem(f) : f \in {g \in DOMAIN dsk.files : extension(g) = <<"db">>}})
      [] dsk.dir = "file" -> Err({})
      [] dsk.dir = "absent" -> Ok({})

create_overwrite(dsk, name, sch) ==
    Outcome(TRUE, <<SqliteFile(create_path(name), sch)>>,
            Disk("directory",
                 with_file(dsk.files, create_path(name),
                           Database(write_schema(EmptyDatabase, sch).val.schema_table,
                                    <<create_items_table(sch)>>, {}, 0, <<sch>>))))

create(dsk, name, sch) ==
    LET file_path == create_path(name)
        made == Disk("directory", dsk.files)
        written == write_schema(EmptyDatabase, sch)
        left(db) == Disk("directory", with_file(dsk.files, file_path, db))
    IN IF dsk.dir = "file" THEN Outcome(FALSE, <<>>, dsk)
       ELSE IF file_path \in DOMAIN dsk.files THEN Outcome(FALSE, <<>>, made)
       ELSE IF ~written.ok THEN Outcome(FALSE, <<>>, left(written.val))
       ELSE IF ~create_items_table_ok(sch) THEN Outcome(FALSE, <<>>, left(written.val))
       ELSE Outcome(TRUE, <<SqliteFile(file_path, sch)>>,
                    left([written.val EXCEPT !.items_table = <<create_items_table(sch)>>,
                                             !.created = <<sch>>]))

\* Connection::open creates the file when the directory has none of that
\* name; read_schema then decides the result.
open(dsk, name) ==
    LET path == set_extension(name, "db")
        files == IF path \in DOMAIN dsk.files THEN dsk.files
                 ELSE with_file(dsk.files, path, EmptyDatabase)
        sch == read_schema(files[path])
    IN IF dsk.dir # "directory" THEN Outcome(FALSE, <<>>, dsk)
       ELSE Outcome(sch.ok, IF sch.ok THEN <<SqliteFile(path, sch.val)>> ELSE <<>>,
                    Disk("directory", files))

remove_file(dsk, name) ==
    LET path == set_extension(name, "db")
    IN IF dsk.dir = "directory" /\ path \in DOMAIN dsk.files
       THEN Outcome(TRUE, <<>>, Disk("directory", without_file(dsk.files, path)))
       ELSE Outcome(FALSE, <<>>, dsk)

----------------------------------------------------------------------------
(* The remote backend (http_client.rs).  The service is not part of the    *)
(* program: each request gets any reply, or none.                          *)

Statuses == {200, 404, 409, 500}

\* StatusCode::is_success: 200..=299.
is_success(status) == status >= 200 /\ status <= 299

NOT_FOUND == 404

\* A response body, by what it decodes to: a record, a list of records, a
\* list of names, a schema, the empty JSON array, or none of these.
Body(kind, records, names, sch) == [kind |-> kind, records |-> records, names |-> names, sch |-> sch]

NoBody == Body("other", <<>>, <<>>, <<>>)

SampleSchema == <<DbFieldDesc("txt", "Text"), DbFieldDesc("n", "Number")>>

SampleItem == DbItem(1, <<DbField("txt", DbValueText(<<"a", "b">>)), DbField("n", DbValueNumber(42))>>, <<>>)

Bodies ==
    { NoBody, Body("array", <<>>, <<>>, <<>>), Body("record", <<SampleItem>>, <<>>, <<>>),
      Body("records", <<SampleItem>>, <<>>, <<>>), Body("names", <<>>, <<<<"a">>>>, <<>>),
      Body("schema", <<>>, <<>>, SampleSchema) }

\* What send() yields: a response, or a transport failure.
Response(status, body) == [arrived |-> TRUE, status |-> status, body |-> body]

TransportFailure == [arrived |-> FALSE, status |-> 0, body |-> NoBody]

Replies == {TransportFailure} \cup {Response(status, body) : status \in Statuses, body \in Bodies}

\* Response::json::<T>() for the T each operation asks for.
json_item(body) == IF body.kind = "record" THEN Ok(body.records) ELSE Err(<<>>)

json_items(body) ==
    CASE body.kind = "records" -> Ok(body.records)
      [] body.kind = "array" -> Ok(<<>>)
      [] OTHER -> Err(<<>>)

json_names(body) ==
    CASE body.kind = "names" -> Ok(body.names)
      [] body.kind = "array" -> Ok(<<>>)
      [] OTHER -> Err(<<>>)

json_schema(body) == IF body.kind = "schema" THEN Ok(body.sch) ELSE Err(<<>>)

\* HttpDBFile::get_item.  Ok(<<>>) is Ok(None).
get_item_lenient(reply) ==
    IF ~reply.arrived THEN Err(<<>>)
    ELSE IF is_success(reply.status) /\ json_item(reply.body).ok THEN json_item(reply.body)
    ELSE Ok(<<>>)

get_item(reply) ==
    IF ~reply.arrived THEN Err(<<>>)
    ELSE IF is_success(reply.status) THEN json_item(reply.body)
    ELSE IF reply.status = NOT_FOUND THEN Ok(<<>>)
    ELSE Err(<<>>)

\* ".send()?; Ok(())": only a transport failure is an error.
send_only(reply) == IF reply.arrived THEN Ok(<<>>) ELSE Err(<<>>)

\* ".send()?.json()?": the status is not looked at.
send_json_items(reply) == IF reply.arrived THEN json_items(reply.body) ELSE Err(<<>>)

send_json_names(reply) == IF reply.arrived THEN json_names(reply.body) ELSE Err(<<>>)

send_json_schema(reply) == IF reply.arrived THEN json_schema(reply.body) ELSE Err(<<>>)

Request(method, path) == [method |-> method, path |-> path]

HttpDBFile(name, sch) == [url |-> name, schema |-> sch]

----------------------------------------------------------------------------
(* The collection handle as a state machine.                               *)
(*   schema    SqliteFile.schema                                           *)
(*   items     the rows of the items table                                 *)
(*   seq       sqlite_sequence: the largest rowid the table has ever held  *)
(*   assigned  the ids given out by insert, in call order                  *)
(*   last      the last call on the handle: its arguments, its Result, the *)
(*             number of rows its statement changed, and for done/undone   *)
(*             the done_at its target row held before (<<>> if no row)     *)

NoCall ==
    [op |-> "create", id |-> 0, time |-> <<>>, fields |-> <<>>, text |-> <<>>,
     ok |-> TRUE, ret |-> <<>>, sch |-> <<>>, count |-> 0, prior |-> <<>>]

PriorDoneAt(rows, id) == IF \E r \in rows : r.id = id THEN <<(CHOOSE r \in rows : r.id = id).done_at>> ELSE <<>>

\* The catalog's last call.  names is what list_files returned, handle the
\* handle create or open returned.
NoCatalogCall == [op |-> "none", name |-> <<>>, sch |-> <<>>, ok |-> TRUE, names |-> {}, handle |-> <<>>]

\* The remote backend's last call: its arguments, the requests it sent, the
\* reply and what the call returned (val: the records, names or schema).
NoExchange ==
    [op |-> "none", name |-> <<>>, id |-> 0, requests |-> <<>>, reply |-> TransportFailure,
     ok |-> TRUE, val |-> <<>>]

RemoteIdle == remote = <<>> /\ exchange = NoExchange

remote_vars == <<remote, exchange>>

\* The catalog variables while the handle is explored on its own.
CatalogIdle ==
    disk = Disk("absent", NoFiles) /\ opened = <<>> /\ call = NoCatalogCall /\ RemoteIdle /\ PromptIdle

\* SqliteDB::create: a new collection with no rows.
Init ==
    /\ schema \in Schemas
    /\ items = {}
    /\ seq = 0
    /\ assigned = <<>>
    /\ last = NoCall
    /\ CatalogIdle

insert(fields) ==
    /\ seq < MaxInserts
    /\ IF insert_prepare_ok(schema, fields)
       THEN LET id == next_rowid(items, seq)
            IN /\ items' = items \cup {insert_row(schema, fields, id)}
               /\ seq' = id
               /\ assigned' = Append(assigned, id)
               /\ last' = [NoCall EXCEPT !.op = "insert", !.fields = fields, !.id = id, !.count = 1]
       ELSE /\ UNCHANGED <<items, seq, assigned>>
            /\ last' = [NoCall EXCEPT !.op = "insert", !.fields = fields, !.ok = FALSE]
    /\ UNCHANGED <<schema, elsewhere>>

delete(id) ==
    /\ items' = delete_rows(items, id)
    /\ last' = [NoCall EXCEPT !.op = "delete", !.id = id, !.count = affected(items, id),
                              !.ok = delete_result(affected(items, id))]
    /\ UNCHANGED <<schema, seq, assigned, elsewhere>>

done(id, time) ==
    /\ items' = update_done_at(items, id, SqlText(format_done_time(time)))
    /\ last' = [NoCall EXCEPT !.op = "done", !.id = id, !.time = <<time>>,
                              !.count = affected(items, id),
                              !.ok = count_is_one(affected(items, id)),
                              !.prior = PriorDoneAt(items, id)]
    /\ UNCHANGED <<schema, seq, assigned, elsewhere>>

undone(id) ==
    /\ items' = update_done_at(items, id, SqlNull)
    /\ last' = [NoCall EXCEPT !.op = "undone", !.id = id,
                              !.count = affected(items, id),
                              !.ok = count_is_one(affected(items, id)),
                              !.prior = PriorDoneAt(items, id)]
    /\ UNCHANGED <<schema, seq, assigned, elsewhere>>

Returned(op, r) == [NoCall EXCEPT !.op = op, !.ok = r.ok, !.ret = r.val]

list_items ==
    /\ \E r \in list_items_results(schema, items) : last' = Returned("list_items", r)
    /\ UNCHANGED <<schema, items, seq, assigned, elsewhere>>

list_done ==
    /\ \E r \in list_done_results(schema, items) : last' = Returned("list_done", r)
    /\ UNCHANGED <<schema, items, seq, assigned, elsewhere>>

list_undone ==
    /\ \E r \in list_undone_results(schema, items) : last' = Returned("list_undone", r)
    /\ UNCHANGED <<schema, items, seq, assigned, elsewhere>>

find(item_name) ==
    /\ \E r \in find_results(schema, items, item_name) :
          last' = [Returned("find", r) EXCEPT !.text = item_name]
    /\ UNCHANGED <<schema, items, seq, assigned, elsewhere>>

get_random ==
    /\ \E r \in get_random_results(schema, items) : last' = Returned("get_random", r)
    /\ UNCHANGED <<schema, items, seq, assigned, elsewhere>>

\* A lookup that takes the record out of the collection.
get_taking(id) ==
    /\ \E r \in get_results(schema, items, id) : last' = [Returned("get", r) EXCEPT !.id = id]
    /\ items' = delete_rows(items, id)
    /\ UNCHANGED <<schema, seq, assigned, elsewhere>>

get(id) ==
    /\ \E r \in get_results(schema, items, id) : last' = [Returned("get", r) EXCEPT !.id = id]
    /\ UNCHANGED <<schema, items, seq, assigned, elsewhere>>

schema_call ==
    /\ last' = [NoCall EXCEPT !.op = "schema", !.sch = schema]
    /\ UNCHANGED <<schema, items, seq, assigned, elsewhere>>

Next ==
    \/ \E fields \in InsertInputs(schema) : insert(fields)
    \/ \E id \in Ids : delete(id)
    \/ \E id \in Ids, time \in Stamps : done(id, time)
    \/ \E id \in Ids : undone(id)
    \/ list_items
    \/ list_done
    \/ list_undone
    \/ \E item_name \in SearchTexts : find(item_name)
    \/ get_random
    \/ \E id \in Ids : get(id)
    \/ schema_call

Spec == Init /\ [][Next]_vars

\* The handle of tests::create_file: FixtureSchema over create_file_table.
InitFixture ==
    /\ schema = FixtureSchema
    /\ items = {}
    /\ seq = 0
    /\ assigned = <<>>
    /\ last = NoCall
    /\ CatalogIdle

SpecFixture == InitFixture /\ [][Next]_vars

----------------------------------------------------------------------------
(* The catalog as a state machine.                                         *)
(*   disk    the storage location and the collection files in it           *)
(*   opened  the handle the caller holds (<<>> if none): the last one a    *)
(*           create or open returned, until its file is removed            *)
(*   call    the last call: its arguments and what it returned             *)

\* Schemas create is called with: those of Schemas, one that names a field
\* twice and one whose field collides with the id column.
CreateSchemas ==
    Schemas \cup { <<DbFieldDesc("txt", "Text"), DbFieldDesc("txt", "Number")>>,
                   <<DbFieldDesc("id", "Number")>> }

\* The storage location before the first call: missing, not a directory,
\* an empty directory, or a directory that holds a file of another kind.
InitialDisks ==
    { Disk("absent", NoFiles), Disk("file", NoFiles), Disk("directory", NoFiles),
      Disk("directory", with_file(NoFiles, <<"notes", "txt">>, EmptyDatabase)) }

\* The handle variables while the catalog is explored.
HandleIdle == schema = <<>> /\ items = {} /\ seq = 0 /\ assigned = <<>> /\ last = NoCall /\ PromptIdle

beyond_catalog == <<schema, items, seq, assigned, last, remote, exchange, prompt, answer>>

InitCatalog ==
    /\ disk \in InitialDisks
    /\ opened = <<>>
    /\ call = NoCatalogCall
    /\ HandleIdle
    /\ RemoteIdle

\* A handle whose file has been removed no longer reaches the catalog.
still_open(handle, dsk) == IF handle # <<>> /\ handle[1].path \in DOMAIN dsk.files THEN handle ELSE <<>>

Returns(op, name, sch, out) ==
    [NoCatalogCall EXCEPT !.op = op, !.name = name, !.sch = sch, !.ok = out.ok, !.handle = out.handle]

db_list_files ==
    /\ call' = [NoCatalogCall EXCEPT !.op = "list_files", !.ok = list_files(disk).ok,
                                     !.names = list_files(disk).val]
    /\ UNCHANGED <<disk, opened, beyond_catalog>>

db_create(name, sch) ==
    LET out == create(disk, name, sch)
    IN /\ disk' = out.disk
       /\ opened' = IF out.ok THEN out.handle ELSE opened
       /\ call' = Returns("create", name, <<sch>>, out)
       /\ UNCHANGED beyond_catalog

db_open(name) ==
    LET out == open(disk, name)
    IN /\ disk' = out.disk
       /\ opened' = IF out.ok THEN out.handle ELSE opened
       /\ call' = Returns("open", name, <<>>, out)
       /\ UNCHANGED beyond_catalog

db_delete(name) ==
    LET out == remove_file(disk, name)
    IN /\ disk' = out.disk
       /\ opened' = still_open(opened, out.disk)
       /\ call' = Returns("delete", name, <<>>, out)
       /\ UNCHANGED beyond_catalog

\* SqliteFile::schema of the handle the caller holds.
opened_schema == IF opened = <<>> THEN <<>> ELSE opened[1].schema

\* SqliteFile::insert through the handle the caller holds.
file_insert(fields) ==
    LET path == opened[1].path
        db == disk.files[path]
        id == next_rowid(db.rows, db.seq)
        good == db.items_table # <<>> /\ insert_prepare_ok(opened[1].schema, fields)
        stored == [db EXCEPT !.rows = db.rows \cup {insert_row(opened[1].schema, fields, id)},
                             !.seq = id]
    IN /\ opened # <<>>
       /\ db.seq < MaxStored
       /\ disk' = IF good THEN Disk(disk.dir, with_file(disk.files, path, stored)) ELSE disk
       /\ call' = [NoCatalogCall EXCEPT !.op = "insert", !.name = file_stem(path), !.ok = good]
       /\ UNCHANGED <<opened, beyond_catalog>>

NextCatalog ==
    \/ db_list_files
    \/ \E name \in Names, sch \in CreateSchemas : db_create(name, sch)
    \/ \E name \in Names : db_open(name)
    \/ \E name \in Names : db_delete(name)
    \/ \E fields \in InsertInputs(opened_schema) : file_insert(fields)

SpecCatalog == InitCatalog /\ [][NextCatalog]_vars

\* A collection file made by create for SampleSchema in which the type name
\* of a field may since have become one this program does not write.
StoredNames(field_type) == {type_to_string(field_type)} \cup (TypeNames \ {type_to_string(t) : t \in DbFieldType})

StoredFiles ==
    { Database(<<{SchemaRow("txt", txt_type, 0), SchemaRow("n", n_type, 1)}>>,
               <<create_items_table(SampleSchema)>>, {}, 0, <<SampleSchema>>) :
        txt_type \in StoredNames("Text"), n_type \in StoredNames("Number") }

\* The catalog directory holds one such file, a.db.
InitStored ==
    /\ disk \in {Disk("directory", with_file(NoFiles, create_path(<<"a">>), db)) : db \in StoredFiles}
    /\ opened = <<>>
    /\ call = NoCatalogCall
    /\ HandleIdle
    /\ RemoteIdle

SpecStored == InitStored /\ [][NextCatalog]_vars

----------------------------------------------------------------------------
(* The remote backend as a state machine.                                  *)
(*   remote    the HttpDBFile the caller holds (<<>> if none)              *)
(*   exchange  the last call, the requests it sent and the reply it got    *)

local_vars_no_prompt == <<schema, items, seq, assigned, last, disk, opened, call>>

local_vars == <<local_vars_no_prompt, prompt, answer>>

InitRemote ==
    /\ remote = <<>>
    /\ exchange = NoExchange
    /\ HandleIdle
    /\ disk = Disk("absent", NoFiles) /\ opened = <<>> /\ call = NoCatalogCall

\* A call that sends its request a second time when the first try failed.
Exchanged_retrying(op, name, id, request, reply, result) ==
    [op |-> op, name |-> name, id |-> id,
     requests |-> IF result.ok THEN <<request>> ELSE <<request, request>>, reply |-> reply,
     ok |-> result.ok, val |-> result.val]

Exchanged(op, name, id, request, reply, result) ==
    [op |-> op, name |-> name, id |-> id, requests |-> <<request>>, reply |-> reply,
     ok |-> result.ok, val |-> result.val]

http_list_files(reply) ==
    /\ exchange' = Exchanged("list_files", <<>>, 0, Request("GET", <<"list">>), reply,
                             send_json_names(reply))
    /\ UNCHANGED <<remote, local_vars>>

http_open(name, reply) ==
    LET sch == send_json_schema(reply)
    IN /\ exchange' = Exchanged("open", name, 0, Request("GET", <<"open", "name">>), reply, sch)
       /\ remote' = IF sch.ok THEN <<HttpDBFile(name, sch.val)>> ELSE remote
       /\ UNCHANGED local_vars

http_create(name, sch, reply) ==
    /\ exchange' = Exchanged("create", name, 0, Request("PUT", <<"create", "name">>), reply,
                             IF send_only(reply).ok THEN Ok(sch) ELSE Err(<<>>))
    /\ remote' = IF send_only(reply).ok THEN <<HttpDBFile(name, sch)>> ELSE remote
    /\ UNCHANGED local_vars

http_delete(name, reply) ==
    /\ exchange' = Exchanged("delete", name, 0, Request("DELETE", <<"delete", "name">>), reply,
                             send_only(reply))
    /\ UNCHANGED <<remote, local_vars>>

http_schema ==
    /\ remote # <<>>
    /\ exchange' = [NoExchange EXCEPT !.op = "schema", !.name = remote[1].url, !.val = remote[1].schema]
    /\ UNCHANGED <<remote, local_vars>>

\* The calls below send their arguments (the Fields of insert, the time of
\* done, the text of find) in the request; what they return depends on the
\* reply alone.
http_list_items(reply) ==
    /\ remote # <<>>
    /\ exchange' = Exchanged("list_items", remote[1].url, 0, Request("GET", <<"items">>), reply,
                             send_json_items(reply))
    /\ UNCHANGED <<remote, local_vars>>

http_list_done(reply) ==
    /\ remote # <<>>
    /\ exchange' = Exchanged("list_done", remote[1].url, 0, Request("GET", <<"items", "done">>), reply,
                             send_json_items(reply))
    /\ UNCHANGED <<remote, local_vars>>

http_list_undone(reply) ==
    /\ remote # <<>>
    /\ exchange' = Exchanged("list_undone", remote[1].url, 0, Request("GET", <<"items", "undone">>), reply,
                             send_json_items(reply))
    /\ UNCHANGED <<remote, local_vars>>

http_insert(reply) ==
    /\ remote # <<>>
    /\ exchange' = Exchanged("insert", remote[1].url, 0, Request("POST", <<"items">>), reply,
                             send_only(reply))
    /\ UNCHANGED <<remote, local_vars>>

http_delete_item(id, reply) ==
    /\ remote # <<>>
    /\ exchange' = Exchanged("delete_item", remote[1].url, id, Request("DELETE", <<"items", "id">>), reply,
                             send_only(reply))
    /\ UNCHANGED <<remote, local_vars>>

http_get(id, reply) ==
    /\ remote # <<>>
    /\ exchange' = Exchanged("get", remote[1].url, id, Request("GET", <<"items", "id">>), reply,
                             get_item(reply))
    /\ UNCHANGED <<remote, local_vars>>

http_get_random(reply) ==
    /\ remote # <<>>
    /\ exchange' = Exchanged("get_random", remote[1].url, 0, Request("GET", <<"items", "random">>), reply,
                             get_item(reply))
    /\ UNCHANGED <<remote, local_vars>>

http_done(id, reply) ==
    /\ remote # <<>>
    /\ exchange' = Exchanged("done", remote[1].url, id, Request("POST", <<"items", "id", "done">>), reply,
                             send_only(reply))
    /\ UNCHANGED <<remote, local_vars>>

http_undone(id, reply) ==
    /\ remote # <<>>
    /\ exchange' = Exchanged("undone", remote[1].url, id, Request("POST", <<"items", "id", "undone">>), reply,
                             send_only(reply))
    /\ UNCHANGED <<remote, local_vars>>

http_find(reply) ==
    /\ remote # <<>>
    /\ exchange' = Exchanged("find", remote[1].url, 0, Request("GET", <<"items", "search">>), reply,
                             send_json_items(reply))
    /\ UNCHANGED <<remote, local_vars>>

\* Ids and names the remote calls are made with.
RemoteIds == {1, 2}

RemoteNames == {<<"a">>}

NextRemote ==
    \/ \E reply \in Replies : http_list_files(reply)
    \/ \E name \in RemoteNames, reply \in Replies : http_open(name, reply)
    \/ \E name \in RemoteNames, sch \in Schemas, reply \in Replies : http_create(name, sch, reply)
    \/ \E name \in RemoteNames, reply \in Replies : http_delete(name, reply)
    \/ http_schema
    \/ \E reply \in Replies : http_list_items(reply)
    \/ \E reply \in Replies : http_list_done(reply)
    \/ \E reply \in Replies : http_list_undone(reply)
    \/ \E reply \in Replies : http_insert(reply)
    \/ \E id \in RemoteIds, reply \in Replies : http_delete_item(id, reply)
    \/ \E id \in RemoteIds, reply \in Replies : http_get(id, reply)
    \/ \E reply \in Replies : http_get_random(reply)
    \/ \E id \in RemoteIds, reply \in Replies : http_done(id, reply)
    \/ \E id \in RemoteIds, reply \in Replies : http_undone(id, reply)
    \/ \E reply \in Replies : http_find(reply)

SpecRemote == InitRemote /\ [][NextRemote]_vars

----------------------------------------------------------------------------
(* Date input (main.rs, impl FromStr for Date).  A string is the sequence  *)
(* of its characters; chrono's parse_from_str is modelled for formats made *)
(* of numeric items and literal characters.                                *)

DateTimeValue(y, m, d, H, M, S) == [y |-> y, m |-> m, d |-> d, H |-> H, M |-> M, S |-> S]

NoDateTimeValue == DateTimeValue(0, 0, 0, 0, 0, 0)

\* A format item: a numeric field of at most width digits, or a literal.
Num(field, width) == [kind |-> "num", field |-> field, width |-> width, c |-> ""]

Lit(c) == [kind |-> "lit", field |-> "", width |-> 0, c |-> c]

\* "%Y-%m-%d"
d_fmt == <<Num("y", 4), Lit("-"), Num("m", 2), Lit("-"), Num("d", 2)>>

\* "%Y-%m-%d %H:%M:%S"
dt_fmt == d_fmt \o <<Lit(" "), Num("H", 2), Lit(":"), Num("M", 2), Lit(":"), Num("S", 2)>>

Min(a, b) == IF a < b THEN a ELSE b

\* A numeric item takes the digits the text starts with, at most width.
LeadingDigits(s, width) ==
    CHOOSE k \in 0..Min(width, Len(s)) :
        /\ \A i \in 1..k : s[i] \in DigitSet
        /\ k < Min(width, Len(s)) => s[k + 1] \notin DigitSet

\* The fields a text gives under a format; the whole text must be used up.
RECURSIVE parse_items(_, _, _)
parse_items(s, fmt, got) ==
    IF fmt = <<>> THEN [ok |-> s = <<>>, val |-> got]
    ELSE IF Head(fmt).kind = "lit"
    THEN IF s # <<>> /\ s[1] = Head(fmt).c
         THEN parse_items(Tail(s), Tail(fmt), got)
         ELSE Err(got)
    ELSE LET k == LeadingDigits(s, Head(fmt).width)
         IN IF k = 0 THEN Err(got)
            ELSE parse_items(SubSeq(s, k + 1, Len(s)), Tail(fmt),
                             [got EXCEPT ![Head(fmt).field] = NatOfText(SubSeq(s, 1, k))])

is_leap_year(y) == (y % 4 = 0 /\ y % 100 # 0) \/ y % 400 = 0

days_in_month(y, m) ==
    CASE m \in {1, 3, 5, 7, 8, 10, 12} -> 31
      [] m \in {4, 6, 9, 11} -> 30
      [] m = 2 -> IF is_leap_year(y) THEN 29 ELSE 28
      [] OTHER -> 0

\* NaiveDate::from_ymd_opt and NaiveTime::from_hms_opt accept these; a
\* parsed second of 60 is a leap second.
valid_date(v) == v.m \in 1..12 /\ v.d \in 1..days_in_month(v.y, v.m)

valid_time(v) == v.H <= 23 /\ v.M <= 59 /\ v.S <= 60

NaiveDateTime_parse_from_str(s, fmt) ==
    LET got == parse_items(s, fmt, NoDateTimeValue)
    IN IF got.ok /\ valid_date(got.val) /\ valid_time(got.val) THEN Ok(got.val) ELSE Err(NoDateTimeValue)

\* The date alone, then and_hms_opt(0, 0, 0).
NaiveDate_parse_from_str(s, fmt) ==
    LET got == parse_items(s, fmt, NoDateTimeValue)
    IN IF got.ok /\ valid_date(got.val) THEN Ok(got.val) ELSE Err(NoDateTimeValue)

from_str_date_time_only(s) == NaiveDateTime_parse_from_str(s, dt_fmt)

\* Date::from_str: the date-time format, or else the date format; every
\* failure is a DateParseError.
from_str(s) ==
    IF NaiveDateTime_parse_from_str(s, dt_fmt).ok
    THEN NaiveDateTime_parse_from_str(s, dt_fmt)
    ELSE NaiveDate_parse_from_str(s, d_fmt)

\* Texts entered at the prompt: year, month, day, their separator, and what
\* follows the day.
YearTexts == {<<"2", "0", "2", "6">>, <<"2", "0", "2", "4">>}

MonthTexts == {<<"0", "1">>, <<"1">>, <<"0", "2">>, <<"1", "3">>}

DayTexts == {<<"1", "1">>, <<"5">>, <<"2", "9">>, <<"3", "0">>}

Separators == {"-", "/"}

TailTexts ==
    { <<>>,
      <<" ", "1", "5", ":", "3", "0", ":", "0", "0">>,
      <<" ", "0", "0", ":", "0", "0", ":", "0", "0">>,
      <<" ", "5", ":", "0", "3", ":", "0", "9">>,
      <<"T", "1", "5", ":", "3", "0", ":", "0", "0">>,
      <<" ", "1", "5", ":", "3", "0">>,
      <<" ", "2", "4", ":", "0", "0", ":", "0", "0">>,
      <<" ", "1", "5", ":", "3", "0", ":", "0", "0", "x">> }

DateInputs ==
    { y \o <<sep>> \o m \o <<sep>> \o d \o tail :
        y \in YearTexts, m \in MonthTexts, d \in DayTexts, sep \in Separators, tail \in TailTexts }

(*   prompt  the text entered                                              *)
(*   answer  <<>> until it is parsed, then <<the Result of from_str>>      *)
InitDate ==
    /\ prompt \in DateInputs
    /\ answer = <<>>
    /\ schema = <<>> /\ items = {} /\ seq = 0 /\ assigned = <<>> /\ last = NoCall
    /\ disk = Disk("absent", NoFiles) /\ opened = <<>> /\ call = NoCatalogCall
    /\ RemoteIdle

parse_date ==
    /\ answer = <<>>
    /\ answer' = <<from_str(prompt)>>
    /\ UNCHANGED <<prompt, local_vars_no_prompt, remote_vars>>

\* Another text is entered.
enter(s) ==
    /\ answer # <<>>
    /\ prompt' = s
    /\ answer' = <<>>
    /\ UNCHANGED <<local_vars_no_prompt, remote_vars>>

NextDate ==
    \/ parse_date
    \/ \E s \in DateInputs : enter(s)

SpecDate == InitDate /\ [][NextDate]_vars

----------------------------------------------------------------------------
(* The handle when callers pass Fields for only some of the columns, next  *)
(* to a catalog whose listing is read.                                     *)

\* Field lists for SampleSchema: one Field per column, and lists that leave
\* a column out (insert builds its column list from the Fields it is given
\* and never compares it with the schema).
PartialFieldLists ==
    { <<DbField("txt", DbValueText(<<"a", "b">>)), DbField("n", DbValueNumber(42))>>,
      <<DbField("txt", DbValueText(<<"a", "b">>))>>,
      <<DbField("n", DbValueNumber(42))>> } \cup UnknownColumnLists

\* The completion time and the search texts the calls are made with.
PartialStamps == {NaiveDateTime("2026-01-11", "15:30:00", "")}

PartialSearchTexts == {<<>>, <<"b">>}

\* The storage location list_files reads: not a directory, or a directory
\* with one collection and a file of another kind.
ListedDisks ==
    { Disk("file", NoFiles),
      create(Disk("directory", with_file(NoFiles, <<"notes", "txt">>, EmptyDatabase)),
             <<"a">>, SampleSchema).disk }

InitPartial ==
    /\ schema = SampleSchema
    /\ items = {}
    /\ seq = 0
    /\ assigned = <<>>
    /\ last = NoCall
    /\ disk \in ListedDisks
    /\ opened = <<>>
    /\ call = NoCatalogCall
    /\ RemoteIdle
    /\ PromptIdle

NextPartial ==
    \/ \E fields \in PartialFieldLists : insert(fields)
    \/ \E id \in Ids : delete(id)
    \/ \E id \in Ids, time \in PartialStamps : done(id, time)
    \/ \E id \in Ids : undone(id)
    \/ list_items
    \/ list_done
    \/ list_undone
    \/ \E item_name \in PartialSearchTexts : find(item_name)
    \/ get_random
    \/ \E id \in Ids : get(id)
    \/ schema_call
    \/ db_list_files

SpecPartial == InitPartial /\ [][NextPartial]_vars

----------------------------------------------------------------------------
(* Properties.                                                             *)

ItemIds(s) == {s[i].id : i \in DOMAIN s}

\* The value the Field named <name> carries in a field list.
FieldValue(fields, name) == (CHOOSE f \in Range(fields) : f.name = name).value

\* The Fields of a field list, put in schema order.
InSchemaOrder(sch, fields) == [i \in DOMAIN sch |-> DbField(sch[i].name, FieldValue(fields, sch[i].name))]

\* The listed record with a given id.
ItemWithId(s, id) == CHOOSE it \in Range(s) : it.id = id

\* C1: Insert/list round trip.  After a successful insert of one Field per
\* schema column, list_items succeeds and contains exactly one Record more
\* than before: the new Record carries the inserted values in schema order
\* with completed_at = None, and every Record listed before is still listed
\* unchanged.
C1_InsertStep ==
    (last'.op = "insert" /\ last'.ok /\ last'.fields \in FullFieldLists(schema)) =>
        \A before \in list_items_results(schema, items) :
            \A after \in list_items_results(schema', items') :
                /\ before.ok /\ after.ok
                /\ Len(after.val) = Len(before.val) + 1
                /\ Range(before.val) \subseteq Range(after.val)
                /\ \E it \in Range(after.val) \ Range(before.val) :
                      /\ it.fields = InSchemaOrder(schema, last'.fields)
                      /\ it.completed_at = <<>>

\* C1: the insert/list round trip, as a property of every step of the handle.
C1_InsertListRoundTrip == [][C1_InsertStep]_vars

\* An insert into a collection that already holds a record, with the Fields
\* passed in an order other than the schema's.
C1_Witness ==
    /\ last.op = "insert" /\ last.ok
    /\ Cardinality(items) = 2
    /\ last.fields[1].name # schema[1].name

\* C2: Filter partition.  In every reachable state each id listed by
\* list_items is listed by exactly one of list_done and list_undone, and the
\* ids of list_done and list_undone together are the ids of list_items.
C2_FilterPartition ==
    \A a \in list_items_results(schema, items) :
        \A d \in list_done_results(schema, items) :
            \A u \in list_undone_results(schema, items) :
                /\ a.ok /\ d.ok /\ u.ok
                /\ Cardinality(ItemIds(d.val)) = Len(d.val)
                /\ Cardinality(ItemIds(u.val)) = Len(u.val)
                /\ ItemIds(d.val) \cap ItemIds(u.val) = {}
                /\ ItemIds(d.val) \cup ItemIds(u.val) = ItemIds(a.val)

\* list_done has just returned a record while another record is pending.
C2_Witness ==
    /\ last.op = "list_done" /\ last.ok /\ last.ret # <<>>
    /\ \E r \in items : r.done_at = SqlNull

\* C3: Id assignment.  Every id insert assigns is greater than every id
\* assigned before it, whatever was deleted in between, and the first id of a
\* new collection is 1.
C3_IdsStrictlyIncrease ==
    /\ \A i, j \in DOMAIN assigned : i < j => assigned[i] < assigned[j]
    /\ assigned # <<>> => assigned[1] = 1

\* A second insert made after the only record, which held the largest id,
\* was deleted.
C3_Witness ==
    /\ last.op = "insert" /\ last.ok
    /\ Len(assigned) = 2
    /\ RowIds(items) = {assigned[2]}

\* C4: Done/undone inverse.  done(id, t) on an existing record succeeds and
\* makes its completed_at Some(t); undone(id) on it succeeds and makes its
\* completed_at None; both leave the record's id and field values as they
\* were.
C4_Step ==
    (last'.op \in {"done", "undone"} /\ last'.id \in RowIds(items)) =>
        \A before \in get_results(schema, items, last'.id) :
            \A after \in get_results(schema', items', last'.id) :
                /\ last'.ok
                /\ before.ok /\ after.ok /\ Len(before.val) = 1
                /\ after.val = <<[before.val[1] EXCEPT !.completed_at = last'.time]>>

\* C4: the done/undone inverse, as a property of every step of the handle.
C4_DoneUndoneInverse == [][C4_Step]_vars

\* undone has just succeeded on a record that done had completed.
C4_Witness ==
    /\ last.op = "undone" /\ last.ok
    /\ last.prior # <<>> /\ last.prior # <<SqlNull>>
    /\ \E r \in items : r.id = last.id /\ r.done_at = SqlNull

\* C5: done and undone on an id no record has return an error and leave the
\* collection's records as they were.
C5_Step ==
    (last'.op \in {"done", "undone"} /\ last'.id \notin RowIds(items)) =>
        /\ ~last'.ok
        /\ items' = items
        /\ list_items_results(schema', items') = list_items_results(schema, items)

\* C5: done and undone on a missing id fail and change nothing, as a property of every step of the handle.
C5_MissingIdFails == [][C5_Step]_vars

\* done has just failed on the id of a deleted record, in a collection that
\* holds another record.
C5_Witness ==
    /\ last.op = "done" /\ ~last.ok
    /\ last.id \in Range(assigned)
    /\ items # {}

\* C6: Random sampling domain.  get_random never returns a completed Record,
\* and it returns None exactly when list_undone is empty: it returns one of
\* the Records of list_undone whenever there is one.
C6_RandomDomain ==
    \A g \in get_random_results(schema, items) :
        \A u \in list_undone_results(schema, items) :
            /\ g.ok /\ u.ok
            /\ (g.val = <<>>) <=> (u.val = <<>>)
            /\ g.val # <<>> => (g.val[1].completed_at = <<>> /\ g.val[1] \in Range(u.val))

\* get_random has just returned a record of a collection that also holds a
\* completed record.
C6_Witness ==
    /\ last.op = "get_random" /\ last.ok /\ last.ret # <<>>
    /\ \E r \in items : r.done_at # SqlNull

\* Whether text t contains s as a substring, ASCII letters compared without
\* regard to case (the reading of "contains" most favourable to the backend).
ContainsText(t, s) ==
    \E k \in 0..(Len(t) - Len(s)) :
        \A i \in 1..Len(s) : FoldCase(t[k + i]) = FoldCase(s[i])

HasMatchingTextField(sch, it, s) ==
    \E i \in DOMAIN sch : sch[i].field_type = "Text" /\ ContainsText(it.fields[i].value.s, s)

\* C7: Search correctness.  On a collection whose schema has a Text field,
\* find(s) succeeds and returns exactly the Records that have a Text field
\* containing s as a substring.  (Collections without a Text field are C8.)
C7_SearchCorrectness ==
    (last.op = "find" /\ text_clauses(schema) # <<>>) =>
        \A a \in list_items_results(schema, items) :
            /\ last.ok
            /\ Range(last.ret) = {it \in Range(a.val) : HasMatchingTextField(schema, it, last.text)}

\* C8: On a collection whose schema has no Text field, find(s) succeeds and
\* returns no Record.
C8_FindWithoutTextFields ==
    (last.op = "find" /\ text_clauses(schema) = <<>>) => (last.ok /\ last.ret = <<>>)

\* C9: Record delete.  delete(id) succeeds whether or not a record has the
\* id; afterwards no record has the id and every other record is listed
\* unchanged, so a delete of an absent id changes nothing.
C9_Step ==
    (last'.op = "delete") =>
        \A before \in list_items_results(schema, items) :
            \A after \in list_items_results(schema', items') :
                /\ last'.ok
                /\ before.ok /\ after.ok
                /\ Range(after.val) = {it \in Range(before.val) : it.id # last'.id}
                /\ Len(after.val) = Cardinality(Range(after.val))

\* C9: record delete, as a property of every step of the handle.
C9_DeleteRecord == [][C9_Step]_vars

\* delete has just removed one record of two, the one with the smaller id.
C9_Witness ==
    /\ last.op = "delete" /\ last.ok /\ last.count = 1
    /\ \E r \in items : r.id > last.id

\* C10: get(id) succeeds for every id; it returns Some(record) exactly when
\* list_items lists a record with that id, and then that very record.
C10_GetMatchesList ==
    \A id \in Ids :
        \A g \in get_results(schema, items, id) :
            \A a \in list_items_results(schema, items) :
                /\ g.ok /\ a.ok
                /\ (g.val # <<>>) <=> (id \in ItemIds(a.val))
                /\ g.val # <<>> => g.val = <<ItemWithId(a.val, id)>>

\* get has just returned a record of a collection that holds two, one of
\* them completed.
C10_Witness ==
    /\ last.op = "get" /\ last.ok /\ last.ret # <<>>
    /\ Cardinality(items) = 2
    /\ last.ret[1].completed_at # <<>>

----------------------------------------------------------------------------
(* Chronological order of timestamps, by their calendar values.            *)

DateNumber(date) == CASE date = "2024-07-01" -> 20240701 [] date = "2026-01-11" -> 20260111

SecondOfDay(time) == CASE time = "00:00:00" -> 0 [] time = "01:20:00" -> 4800 [] time = "15:30:00" -> 55800

Nanosecond(frac) == CASE frac = "" -> 0 [] frac = ".5" -> 500000000

NotAfter(t1, t2) ==
    \/ DateNumber(t1.date) < DateNumber(t2.date)
    \/ /\ DateNumber(t1.date) = DateNumber(t2.date)
       /\ \/ SecondOfDay(t1.time) < SecondOfDay(t2.time)
          \/ /\ SecondOfDay(t1.time) = SecondOfDay(t2.time)
             /\ Nanosecond(t1.frac) <= Nanosecond(t2.frac)

\* C11: Listing order.  In every reachable state list_items and list_undone
\* return their Records in strictly ascending id order, and list_done returns
\* its Records in ascending order of completion time, whatever the order in
\* which the records were inserted or marked done.
C11_ListingOrder ==
    /\ \A a \in list_items_results(schema, items) \cup list_undone_results(schema, items) :
          a.ok /\ \A i, j \in DOMAIN a.val : i < j => a.val[i].id < a.val[j].id
    /\ \A d \in list_done_results(schema, items) :
          /\ d.ok
          /\ \A i \in DOMAIN d.val : d.val[i].completed_at # <<>>
          /\ \A i, j \in DOMAIN d.val :
                i < j => NotAfter(d.val[i].completed_at[1], d.val[j].completed_at[1])

\* list_done has just returned two records, the later-inserted one first:
\* it was completed at an earlier time.
C11_Witness ==
    /\ last.op = "list_done" /\ last.ok
    /\ Len(last.ret) = 2
    /\ last.ret[1].id > last.ret[2].id
    /\ last.ret[1].completed_at # last.ret[2].completed_at

----------------------------------------------------------------------------
(* Properties of the catalog.                                              *)

\* The catalog has a collection of this name: a create call for the name
\* completed, and the file it made has not been removed since.
CollectionExists(dsk, name) ==
    /\ dsk.dir = "directory"
    /\ create_path(name) \in DOMAIN dsk.files
    /\ dsk.files[create_path(name)].created # <<>>

\* The schema that collection was created with.
CreatedWith(dsk, name) == dsk.files[create_path(name)].created[1]

\* C12: Creating an existing name.  A create(name, schema) call made while a
\* collection of that name exists fails and returns no handle, and the file
\* of the existing collection (its schema and its records) is the same after
\* the call as before, as is every other file of the catalog.
C12_Step ==
    (call'.op = "create" /\ CollectionExists(disk, call'.name)) =>
        /\ ~call'.ok
        /\ call'.handle = <<>>
        /\ disk'.files[create_path(call'.name)] = disk.files[create_path(call'.name)]
        /\ disk' = disk

C12_CreateExisting == [][C12_Step]_vars

\* create has just failed on the name of a collection that holds a record.
C12_Witness ==
    /\ call.op = "create" /\ ~call.ok
    /\ CollectionExists(disk, call.name)
    /\ disk.files[create_path(call.name)].rows # {}

\* Every database file of the catalog is a collection: no failed create or
\* open has left a file behind.
NoLeftovers(dsk) == \A f \in DOMAIN dsk.files : extension(f) = <<"db">> => dsk.files[f].created # <<>>

\* C13: Missing names.  A delete(name) or open(name) call made for a name no
\* collection of the catalog has fails and returns no handle.  (Stated for
\* catalogs in which no earlier failed call has left a file behind.)
C13_Step ==
    (call'.op \in {"delete", "open"} /\ ~CollectionExists(disk, call'.name) /\ NoLeftovers(disk)) =>
        ~call'.ok /\ call'.handle = <<>>

C13_MissingNameFails == [][C13_Step]_vars

\* C14: Deleting a collection.  A delete(name) call on an existing collection
\* succeeds, and in the state it leaves name is not listed, open(name) fails,
\* another delete(name) fails, and create(name, schema) succeeds with a
\* collection that has no records.
C14_Step ==
    (call'.op = "delete" /\ CollectionExists(disk, call'.name)) =>
        /\ call'.ok
        /\ list_files(disk').ok /\ call'.name \notin list_files(disk').val
        /\ ~open(disk', call'.name).ok
        /\ ~remove_file(disk', call'.name).ok
        /\ \A sch \in Schemas :
              LET out == create(disk', call'.name, sch)
              IN /\ out.ok
                 /\ list_items_results(sch, out.disk.files[out.handle[1].path].rows) = {Ok(<<>>)}

C14_DeleteCollection == [][C14_Step]_vars

\* C15: Schema is write-once and persisted.  The handle create(name, S)
\* returns has schema S, and so has every handle open(name) returns while
\* that collection exists, whatever was done to its records in between.
\* (Stated for catalogs in which no failed call has left a file behind.)
C15_SchemaPersisted ==
    /\ (call.op = "create" /\ call.ok) => call.handle[1].schema = call.sch[1]
    /\ (call.op = "open" /\ call.ok /\ CollectionExists(disk, call.name) /\ NoLeftovers(disk)) =>
          call.handle[1].schema = CreatedWith(disk, call.name)

\* C16: list_collections.  A successful list_files returns exactly the names
\* of the collections that exist (created and not since deleted), and it
\* returns no name and no error when the location is missing or empty.
C16_ListCollections ==
    call.op = "list_files" =>
        /\ call.ok => call.names = {name \in Names : CollectionExists(disk, name)}
        /\ (disk.dir = "absent" \/ (disk.dir = "directory" /\ DOMAIN disk.files = {})) =>
              call.ok /\ call.names = {}

----------------------------------------------------------------------------
\* The Records a result holds, for every read operation of the handle.
ReadResults ==
    list_items_results(schema, items) \cup list_done_results(schema, items)
    \cup list_undone_results(schema, items) \cup get_random_results(schema, items)
    \cup UNION {get_results(schema, items, id) : id \in Ids}
    \cup UNION {find_results(schema, items, s) : s \in SearchTexts}

\* C17: Field order.  Every Record a read operation returns has as many
\* Fields as the schema has fields, named as the schema names them and in the
\* schema's order, whatever order insert was given and whatever order the
\* columns of the items table are in.
C17_FieldOrder ==
    \A r \in ReadResults : r.ok =>
        \A k \in DOMAIN r.val :
            /\ Len(r.val[k].fields) = Len(schema)
            /\ \A i \in DOMAIN schema : r.val[k].fields[i].name = schema[i].name

\* A read has just returned a record from a table whose columns are in
\* another order than the schema's fields.
C17_Witness ==
    /\ last.op \in {"list_items", "list_done", "list_undone", "get", "get_random", "find"}
    /\ last.ok /\ last.ret # <<>>
    /\ item_fields_in_table_order(schema) # schema

----------------------------------------------------------------------------
(* Properties of the remote backend.                                       *)

\* C18: Remote single-record lookup.  For get(id) and get_random(): a
\* response with a success status and a record in its body yields
\* Some(record); a response with status 404 yields None; every other
\* response (another status, or a success status whose body is no record)
\* and every transport failure yields an error, never None.
C18_RemoteLookup ==
    exchange.op \in {"get", "get_random"} =>
        LET reply == exchange.reply
        IN CASE reply.arrived /\ is_success(reply.status) /\ reply.body.kind = "record" ->
                  exchange.ok /\ exchange.val = reply.body.records /\ Len(exchange.val) = 1
             [] reply.arrived /\ reply.status = 404 -> exchange.ok /\ exchange.val = <<>>
             [] OTHER -> ~exchange.ok

\* get or get_random has just met a status that is neither success nor 404.
C18_Witness ==
    /\ exchange.op \in {"get", "get_random"}
    /\ exchange.reply.arrived /\ exchange.reply.status = 500
    /\ ~exchange.ok

\* C19: Remote error semantics.  When the service answers done, undone,
\* create or delete(name) with a status that is not a success, the remote
\* call returns an error.
C19_RemoteRejection ==
    (/\ exchange.op \in {"done", "undone", "create", "delete"}
     /\ exchange.reply.arrived
     /\ ~is_success(exchange.reply.status)) => ~exchange.ok

----------------------------------------------------------------------------
(* Properties of the type names.                                           *)

\* The names of the four field types.
FourNames ==
    { <<"T", "e", "x", "t">>, <<"N", "u", "m", "b", "e", "r">>,
      <<"B", "o", "o", "l", "e", "a", "n">>, <<"D", "a", "t", "e", "T", "i", "m", "e">> }

\* The file open(name) reads holds a type name that is none of the four.
HoldsUnknownName(dsk, name) ==
    /\ dsk.dir = "directory"
    /\ set_extension(name, "db") \in DOMAIN dsk.files
    /\ dsk.files[set_extension(name, "db")].schema_table # <<>>
    /\ \E row \in dsk.files[set_extension(name, "db")].schema_table[1] : row.datatype \notin FourNames

\* C20: FieldType text round trip.  Each of the four types, written to its
\* name and parsed back, is the same type; the four names are pairwise
\* distinct and are the four expected ones; any other name fails to parse;
\* and an open(name) that reads a schema holding such a name fails and
\* returns no handle.
C20_TypeNameRoundTrip ==
    /\ \A t \in DbFieldType : parse(type_to_string(t)) = Ok(t)
    /\ \A t, u \in DbFieldType : t # u => type_to_string(t) # type_to_string(u)
    /\ {type_to_string(t) : t \in DbFieldType} = FourNames
    /\ \A s \in TypeNames \ FourNames : ~parse(s).ok
    /\ (call.op = "open" /\ HoldsUnknownName(disk, call.name)) => ~call.ok /\ call.handle = <<>>

\* open has just failed on a file whose schema holds an unknown type name.
C20_Witness == call.op = "open" /\ HoldsUnknownName(disk, call.name) /\ ~call.ok

----------------------------------------------------------------------------
(* Properties of date input.                                               *)

Pad2(n) == IF n < 10 THEN <<"0">> \o NatToText(n) ELSE NatToText(n)

\* A number written with or without its leading zero.
Written(n) == {Pad2(n), NatToText(n)}

\* Valid dates and times of day, and the texts that denote them.
ValidDates ==
    {v \in {DateTimeValue(y, m, d, 0, 0, 0) : y \in {2024, 2026}, m \in {1, 2, 12}, d \in {5, 11, 29, 30}} :
        \/ v.m \in {1, 12}
        \/ v.m = 2 /\ v.d <= (IF v.y = 2024 THEN 29 ELSE 28)}

ValidTimes == {<<H, M, S>> : H \in {0, 5, 15}, M \in {0, 3, 30}, S \in {0, 9}}

DateTexts(v) ==
    {NatToText(v.y) \o <<"-">> \o m \o <<"-">> \o d : m \in Written(v.m), d \in Written(v.d)}

TimeTexts(t) ==
    {<<" ">> \o H \o <<":">> \o M \o <<":">> \o S : H \in Written(t[1]), M \in Written(t[2]), S \in Written(t[3])}

Reading(s, v) == [s |-> s, v |-> v]

Readings ==
    UNION {{Reading(s, v) : s \in DateTexts(v)} : v \in ValidDates}
    \cup UNION {UNION {{Reading(d \o tm, [v EXCEPT !.H = t[1], !.M = t[2], !.S = t[3]]) :
                           d \in DateTexts(v), tm \in TimeTexts(t)} : t \in ValidTimes} : v \in ValidDates}

DigitsAt(s, from, to) == \A i \in from..to : s[i] \in DigitSet

\* The forms YYYY-MM-DD and YYYY-MM-DD HH:MM:SS, digit for digit.
HasDateForm(s) ==
    Len(s) >= 10 /\ DigitsAt(s, 1, 4) /\ s[5] = "-" /\ DigitsAt(s, 6, 7) /\ s[8] = "-" /\ DigitsAt(s, 9, 10)

HasDateTimeForm(s) ==
    /\ Len(s) = 19 /\ HasDateForm(s) /\ s[11] = " "
    /\ DigitsAt(s, 12, 13) /\ s[14] = ":" /\ DigitsAt(s, 15, 16) /\ s[17] = ":" /\ DigitsAt(s, 18, 19)

NumberAt(s, from, to) == NatOfText(SubSeq(s, from, to))

C22_Step ==
    (last'.op \in {"done", "undone"} /\ last'.id \in RowIds(items)) =>
        /\ RowIds(items') = RowIds(items)
        /\ Cardinality(items') = Cardinality(items)
        /\ seq' = seq /\ schema' = schema
        /\ \A r \in items : r.id # last'.id => r \in items'
        /\ \A before \in list_items_results(schema, items) :
              \A after \in list_items_results(schema', items') :
                  /\ before.ok /\ after.ok
                  /\ Len(after.val) = Len(before.val)
                  /\ \A i \in DOMAIN before.val :
                        /\ after.val[i].id = before.val[i].id
                        /\ after.val[i].fields = before.val[i].fields
                        /\ before.val[i].id # last'.id => after.val[i] = before.val[i]

\* C22: the frame of done and undone, as a property of every step of the handle.
C22_DoneUndoneFrame == [][C22_Step]_vars

\* done has just completed one of two records while the other one stays
\* completed at another time.
C22_Witness ==
    /\ last.op = "done" /\ last.ok
    /\ Cardinality(items) = 2
    /\ \E r, q \in items :
          /\ r.id = last.id /\ q.id # last.id
          /\ q.done_at # SqlNull /\ q.done_at # r.done_at

\* C26: done and undone do not look at the record's state.  done(id, t2) on
\* a record that is already completed succeeds and makes its completed_at
\* Some(t2); undone(id) on a pending record succeeds and leaves it pending;
\* either call succeeds exactly when a record with that id exists.
C26_Step ==
    (last'.op \in {"done", "undone"}) =>
        /\ last'.ok <=> last'.id \in RowIds(items)
        /\ \A r \in items :
              (/\ r.id = last'.id
               /\ \/ last'.op = "done" /\ r.done_at # SqlNull
                  \/ last'.op = "undone" /\ r.done_at = SqlNull) =>
                  /\ last'.ok
                  /\ \A after \in get_results(schema', items', last'.id) :
                        /\ after.ok /\ Len(after.val) = 1
                        /\ after.val[1].completed_at = last'.time

\* C26: done on a completed record and undone on a pending one, as a property of every step of the handle.
C26_StateIndependent == [][C26_Step]_vars

\* done has just succeeded on a record that was completed at another time.
C26_Witness ==
    /\ last.op = "done" /\ last.ok
    /\ last.prior # <<>> /\ last.prior # <<SqlNull>>
    /\ \A r \in items : r.id = last.id => <<r.done_at>> # last.prior

\* C23: create has no partial success.  A create call that returns a handle
\* has stored the schema and made the items table; a create call that fails
\* after it made the storage file (the name had no file before the call)
\* leaves no trace of the collection: list_files does not list the name and
\* open(name) fails.
C23_Step ==
    (call'.op = "create") =>
        /\ call'.ok =>
              /\ call'.handle # <<>>
              /\ read_schema(disk'.files[create_path(call'.name)]) = Ok(call'.sch[1])
              /\ disk'.files[create_path(call'.name)].items_table # <<>>
        /\ (~call'.ok /\ disk.dir # "file" /\ create_path(call'.name) \notin DOMAIN disk.files) =>
              /\ list_files(disk').ok /\ call'.name \notin list_files(disk').val
              /\ ~open(disk', call'.name).ok

\* C23: create is all or nothing, as a property of every step of the catalog.
C23_CreateAllOrNothing == [][C23_Step]_vars

\* C24: A failed open changes nothing.  When open(name) fails in an existing
\* catalog directory because no collection has that name, list_files returns
\* afterwards what it returned before and create(name, schema) succeeds.
\* (Stated for catalogs in which no earlier failed call has left a file
\* behind.)
C24_Step ==
    (/\ call'.op = "open" /\ ~call'.ok
     /\ disk.dir = "directory"
     /\ ~CollectionExists(disk, call'.name) /\ NoLeftovers(disk)) =>
        /\ list_files(disk') = list_files(disk)
        /\ \A sch \in Schemas : create(disk', call'.name, sch).ok

\* C24: the frame of a failed open, as a property of every step of the catalog.
C24_FailedOpenFrame == [][C24_Step]_vars

\* C25: One request per call, no retry.  Every catalog call and every
\* collection call other than schema has sent exactly one request when it
\* returns, whether the request failed in transport, was answered with an
\* error status or succeeded; a request that got no reply makes the call
\* return an error.  schema sends no request: it returns the schema the
\* handle received from open or create.
C25_OneRequest ==
    /\ exchange.op \notin {"none", "schema"} =>
          /\ Len(exchange.requests) = 1
          /\ ~exchange.reply.arrived => ~exchange.ok
    /\ exchange.op = "schema" =>
          /\ exchange.requests = <<>>
          /\ exchange.ok /\ exchange.val = remote[1].schema

\* A call through the handle has just failed because its request got no reply.
C25_Witness ==
    /\ exchange.op = "list_items"
    /\ ~exchange.reply.arrived /\ ~exchange.ok
    /\ Len(exchange.requests) = 1

\* C25 as claimed: every catalog and collection call, schema included, has
\* sent exactly one request when it returns.
C25_AsClaimed ==
    exchange.op # "none" => Len(exchange.requests) = 1

----------------------------------------------------------------------------
(* Properties of reads and of partial field lists.                         *)

ReadOps == {"schema", "list_items", "list_done", "list_undone", "get", "get_random", "find"}

\* C27: Reads have no effect.  A schema, list_items, list_done, list_undone,
\* get, get_random or find call, successful or failed, leaves the rows of
\* the collection (each record's id, field values and completion time), the
\* schema and the AUTOINCREMENT sequence as they were; a list_files call,
\* successful or failed, leaves the catalog's storage and the collection as
\* they were.
C27_Step ==
    /\ last'.op \in ReadOps =>
          /\ items' = items /\ seq' = seq /\ schema' = schema
          /\ next_rowid(items', seq') = next_rowid(items, seq)
    /\ (call'.op = "list_files" /\ last' = last) =>
          /\ disk' = disk /\ opened' = opened
          /\ items' = items /\ seq' = seq /\ schema' = schema

\* C27: reads change nothing, as a property of every step.
C27_ReadsHaveNoEffect == [][C27_Step]_vars

\* get has just failed on a collection that holds a record, after a
\* list_files call that failed too.
C27_Witness ==
    /\ last.op = "get" /\ ~last.ok
    /\ items # {}
    /\ call.op = "list_files" /\ ~call.ok

\* C28: The collection stays readable.  In every state the handle reaches,
\* by inserts that name all or only some of the schema's columns among its
\* calls, list_items succeeds and lists exactly the records inserted and not
\* deleted, and get and find succeed.
C28_StaysReadable ==
    /\ \A r \in list_items_results(schema, items) : r.ok /\ ItemIds(r.val) = RowIds(items)
    /\ \A id \in Ids : \A r \in get_results(schema, items, id) : r.ok
    /\ \A item_name \in PartialSearchTexts : \A r \in find_results(schema, items, item_name) : r.ok

====
